---------------------------- MODULE Spec2Model ----------------------------
(***************************************************************************)
(* Model of src/estoq.py: a Streamlit script that loads df_estoque.csv,    *)
(* filters it by year/month of the last purchase and renders the stock     *)
(* views.  A run of the script is a sequence of steps (one per section of  *)
(* the script) tracked by pc; a widget interaction of the user ends in a   *)
(* rerun of the whole script from its first line.                          *)
(*                                                                         *)
(* Manufacturer and product names are represented by their rank in the     *)
(* lexicographic order of the names (pandas' groupby sorts its keys).      *)
(* Quantity columns hold integers (unit counts, int64 columns), for which  *)
(* Python's int() is value preserving.                                     *)
(***************************************************************************)
EXTENDS Integers, Sequences, FiniteSets, TLC

(***************************************************************************)
(* Bounds of the model.                                                    *)
(***************************************************************************)
\* longest file drawn from RowPool
MaxRows == 3
\* manufacturers beyond the ten the chart keeps, in the many-manufacturer files
ExtraFab == 1
\* at most this many manufacturers of a many-manufacturer file carry the high quantity
MaxHeavy == 1

(***************************************************************************)
(* Generic helpers standing for Python / pandas primitives.                *)
(***************************************************************************)
Range(s) == {s[i] : i \in DOMAIN s}

RECURSIVE SumSeq(_)
SumSeq(s) == IF s = <<>> THEN 0 ELSE Head(s) + SumSeq(Tail(s))

\* Series.unique(): the distinct values in order of first appearance
RECURSIVE Unique(_)
Unique(s) ==
    IF s = <<>> THEN <<>>
    ELSE LET init == Unique(SubSeq(s, 1, Len(s) - 1))
             x    == s[Len(s)]
         IN IF x \in Range(init) THEN init ELSE Append(init, x)

\* position i of keys inserted into the index list idx, behind every index
\* whose key is <= keys[i]
RECURSIVE InsertIdx(_, _, _)
InsertIdx(i, idx, keys) ==
    IF idx = <<>> THEN <<i>>
    ELSE IF keys[Head(idx)] <= keys[i]
         THEN <<Head(idx)>> \o InsertIdx(i, Tail(idx), keys)
         ELSE <<i>> \o idx

\* ndarray.argsort on an array of at most 16 elements: insertion sort, which
\* leaves equal keys in their order.  (kind='quicksort' promises no order of
\* equal keys on longer arrays; no property below relies on one.)
RECURSIVE ArgsortFrom(_, _)
ArgsortFrom(n, keys) ==
    IF n = 0 THEN <<>> ELSE InsertIdx(n, ArgsortFrom(n - 1, keys), keys)

Argsort(keys) == ArgsortFrom(Len(keys), keys)

Reverse(s) == [i \in DOMAIN s |-> s[Len(s) + 1 - i]]

Head_n(s, n) == SubSeq(s, 1, IF Len(s) < n THEN Len(s) ELSE n)

Max(S) == CHOOSE x \in S : \A y \in S : y <= x

(***************************************************************************)
(* Dates.  A raw CSV cell is a tuple; a parsed Timestamp is <<y, m, d>>    *)
(* and NaT is the empty tuple.                                             *)
(***************************************************************************)
NaT == <<>>

IsLeap(y) == (y % 4 = 0 /\ y % 100 # 0) \/ y % 400 = 0

DaysInMonth(y, m) ==
    IF m = 2 THEN (IF IsLeap(y) THEN 29 ELSE 28)
    ELSE IF m \in {4, 6, 9, 11} THEN 30 ELSE 31

\* pd.to_datetime(..., errors='coerce') on one cell
ToDatetime(cell) ==
    IF /\ Len(cell) = 3
       /\ cell[2] \in 1..12
       /\ cell[3] \in 1..DaysInMonth(cell[1], cell[2])
    THEN cell
    ELSE NaT

RECURSIVE DaysBeforeYear(_)
DaysBeforeYear(y) ==
    IF y <= 2020 THEN 0
    ELSE DaysBeforeYear(y - 1) + (IF IsLeap(y - 1) THEN 366 ELSE 365)

RECURSIVE DaysBeforeMonth(_, _)
DaysBeforeMonth(y, m) ==
    IF m <= 1 THEN 0 ELSE DaysBeforeMonth(y, m - 1) + DaysInMonth(y, m - 1)

\* day number of a Timestamp, counted from 2020-01-01
Ordinal(ts) == DaysBeforeYear(ts[1]) + DaysBeforeMonth(ts[1], ts[2]) + ts[3]

\* datetime.date.today() of the session
hoje == <<2024, 7, 28>>


(***************************************************************************)
(* Program constants.                                                      *)
(***************************************************************************)
MESES_ABREVIADOS ==
    [m \in 1..12 |->
        <<"Jan", "Fev", "Mar", "Abr", "Mai", "Jun",
          "Jul", "Ago", "Set", "Out", "Nov", "Dez">>[m]]

\* head(10) of the manufacturers chart
TopN == 10
\* number_input "disp_input_filter": min_value, value
LimiteMin == 0
LimiteValue == 10
\* slider "dias_compra_slider": min_value, max_value, value
DiasMin == 30
DiasMax == 730
DiasValue == 180
\* slider "critico_slider": min_value, value
CriticoMin == 0
CriticoValue == 5

(***************************************************************************)
(* Data frames.  A frame is its set of column names and its rows in order; *)
(* a row is a record over the columns.  None is the value carregar_dados   *)
(* returns on failure.                                                     *)
(***************************************************************************)
None == [none |-> TRUE]

COLUNAS ==
    {"produto", "fabricante", "quantidade_fisica", "quantidade_solicitada",
     "quantidade_reservada", "quantidade_disponivel", "quantidade_avariada",
     "custo_liquido_entrada", "data_ultima_compra"}

Linha(p, f, fis, sol, res, disp, avar, custo, data) ==
    [produto |-> p, fabricante |-> f, quantidade_fisica |-> fis,
     quantidade_solicitada |-> sol, quantidade_reservada |-> res,
     quantidade_disponivel |-> disp, quantidade_avariada |-> avar,
     custo_liquido_entrada |-> custo, data_ultima_compra |-> data]

Frame(cols, rows) == [cols |-> cols, rows |-> rows]

IsEmpty(df) == df.rows = <<>>

\* df[col]: a column as a series of values
Column(df, col) == [i \in DOMAIN df.rows |-> df.rows[i][col]]

\* df[col] = series
WithColumn(df, col, series) ==
    Frame(df.cols \cup {col},
          [i \in DOMAIN df.rows |->
              [c \in df.cols \cup {col} |->
                  IF c = col THEN series[i] ELSE df.rows[i][c]]])

\* series == v, series < v, series > v, series >= v, mask & mask
SeriesEq(series, v) == [i \in DOMAIN series |-> series[i] = v]

SeriesLt(series, v) == [i \in DOMAIN series |-> series[i] < v]

SeriesGt(series, v) == [i \in DOMAIN series |-> series[i] > v]

SeriesGe(series, v) == [i \in DOMAIN series |-> series[i] >= v]

MaskAnd(a, b) == [i \in DOMAIN a |-> a[i] /\ b[i]]

\* df[mask]: the rows whose mask entry is true, in order
Where(df, mask) ==
    LET keep == SelectSeq([i \in DOMAIN df.rows |-> i], LAMBDA i : mask[i])
    IN Frame(df.cols, [k \in DOMAIN keep |-> df.rows[keep[k]]])

\* df.sort_values(by=col, ascending=False): pandas' nargsort reverses the
\* values, argsorts them ascending and reverses the resulting indexer
SortValuesDesc(df, col) ==
    LET n       == Len(df.rows)
        keys    == Reverse(Column(df, col))
        revIdx  == [i \in 1..n |-> n + 1 - i]
        sorted  == Argsort(keys)
        indexer == Reverse([i \in 1..n |-> revIdx[sorted[i]]])
    IN Frame(df.cols, [i \in 1..n |-> df.rows[indexer[i]]])

(***************************************************************************)
(* The input file: absent, unreadable, or a table of rows.                 *)
(***************************************************************************)
RowPool ==
    { Linha(1, 2, 100, 20, 10,  5, 10, 2, <<2024, 1, 10>>),
      Linha(2, 2,  50,  0,  0, 60,  0, 3, <<2024, 6, 1>>),
      Linha(3, 3,  50,  0,  0,  8,  0, 1, <<2023, 3, 1>>),
      Linha(4, 1,   0, 20,  1, -1,  5, 4, <<2024, 1, 10>>),
      Linha(5, 1,  30,  7,  0, 40,  3, 2, <<2024, 2, 30>>) }

SeqsUpTo(S, n) == UNION {[1..k -> S] : k \in 0..n}

\* one row per manufacturer, manufacturers in descending name order, the
\* manufacturers in heavy holding 20 units and the others 10
ManyFabRows(n, heavy) ==
    [i \in 1..n |->
        Linha(i, n + 1 - i, IF (n + 1 - i) \in heavy THEN 20 ELSE 10,
              1, 0, 60, 0, 1, <<2024, 6, 1>>)]

ManyFabFiles ==
    { ManyFabRows(TopN + ExtraFab, heavy) :
        heavy \in {h \in SUBSET (1..(TopN + ExtraFab)) : Cardinality(h) <= MaxHeavy} }

Arquivos ==
    {[estado |-> "ausente", linhas |-> <<>>],
     [estado |-> "malformado", linhas |-> <<>>]}
    \cup {[estado |-> "ok", linhas |-> l] : l \in SeqsUpTo(RowPool, MaxRows)}
    \cup {[estado |-> "ok", linhas |-> l] : l \in ManyFabFiles}

(***************************************************************************)
(* carregar_dados                                                          *)
(***************************************************************************)
ParseDates(rows) ==
    [i \in DOMAIN rows |->
        [rows[i] EXCEPT !.data_ultima_compra = ToDatetime(@)]]

DropNaDates(rows) == SelectSeq(rows, LAMBDA r : r.data_ultima_compra # NaT)

\* carregar_dados without its test for an empty frame
carregar_dados_NoEmptyCheck(arq) ==
    IF arq.estado = "ausente"
    THEN [df |-> None, msg |-> "error:arquivo nao encontrado"]
    ELSE IF arq.estado = "malformado"
    THEN [df |-> None, msg |-> "error:erro ao carregar"]
    ELSE [df |-> Frame(COLUNAS, DropNaDates(ParseDates(arq.linhas))), msg |-> ""]

\* the value returned and the message shown
carregar_dados(arq) ==
    IF arq.estado = "ausente"
    THEN [df |-> None, msg |-> "error:arquivo nao encontrado"]
    ELSE IF arq.estado = "malformado"
    THEN [df |-> None, msg |-> "error:erro ao carregar"]
    ELSE LET df == Frame(COLUNAS, DropNaDates(ParseDates(arq.linhas)))
         IN IF IsEmpty(df)
            THEN [df |-> None, msg |-> "warning:arquivo vazio"]
            ELSE [df |-> df, msg |-> ""]

(***************************************************************************)
(* Streamlit widgets.  A widget without a changed identity keeps the value *)
(* the user gave it; its identity is made of its parameters (options,      *)
(* bounds), so a widget rendered with other parameters is a new widget and *)
(* starts at its default.  state = [params, val].                          *)
(***************************************************************************)
TodosAno == [todos |-> TRUE]

AnoOpt(y) == [ano |-> y]

\* a selectbox that keeps the value last chosen whatever options it is given
Selectbox_KeepsValue(state, options) ==
    IF state.params = <<>> THEN options[1] ELSE state.val

\* st.selectbox(label, options): one of the options, the first by default
Selectbox(state, options) ==
    IF state.params = options THEN state.val ELSE options[1]

\* st.number_input / st.slider(min_value, max_value, value): raises when the
\* initial value lies outside min_value..max_value
RangeInput(state, min_value, max_value, value) ==
    IF value < min_value \/ value > max_value
    THEN [erro |-> TRUE, val |-> value]
    ELSE [erro |-> FALSE,
          val  |-> IF state.params = <<min_value, max_value>>
                   THEN state.val ELSE value]

(***************************************************************************)
(* Filters (lines 55-100)                                                  *)
(***************************************************************************)
Sorted(s) == LET idx == Argsort(s) IN [i \in DOMAIN s |-> s[idx[i]]]

\* sorted(s, reverse=True)
SortedReverse(s) == Reverse(Sorted(Reverse(s)))

\* list(MESES_ABREVIADOS.values()).index(x)
IndexOfAbbrev(x) == (CHOOSE m \in 1..12 : MESES_ABREVIADOS[m] = x) - 1

\* sorted(abbrevs, key=lambda x: list(MESES_ABREVIADOS.values()).index(x))
SortedByMonthIndex(abbrevs) ==
    LET idx == Argsort([i \in DOMAIN abbrevs |-> IndexOfAbbrev(abbrevs[i])])
    IN [i \in DOMAIN abbrevs |-> abbrevs[idx[i]]]

\* lines 60-65: dates parsed again, ano_compra and mes_compra derived
PrepararEstoque(df) ==
    LET d1 == Frame(df.cols, DropNaDates(ParseDates(df.rows)))
        d2 == WithColumn(d1, "ano_compra",
                         [i \in DOMAIN d1.rows |-> d1.rows[i].data_ultima_compra[1]])
    IN WithColumn(d2, "mes_compra",
                  [i \in DOMAIN d1.rows |-> d1.rows[i].data_ultima_compra[2]])

\* line 71
TodosAnos(df) ==
    LET anos == SortedReverse(Unique(Column(df, "ano_compra")))
    IN <<TodosAno>> \o [i \in DOMAIN anos |-> AnoOpt(anos[i])]

\* lines 76-83
TodosMeses(df, ano) ==
    LET meses_disponiveis ==
            IF ano # TodosAno
            THEN LET doAno == Where(df, SeriesEq(Column(df, "ano_compra"), ano.ano))
                     nums  == Unique(Column(doAno, "mes_compra"))
                 IN SortedByMonthIndex([i \in DOMAIN nums |-> MESES_ABREVIADOS[nums[i]]])
            ELSE <<>>
    IN <<"Todos">> \o meses_disponiveis

\* lines 94-98: the number of the selected abbreviation, 0 standing for None
NumMesSelecionado(mes) ==
    IF \E num \in 1..12 : MESES_ABREVIADOS[num] = mes
    THEN CHOOSE num \in 1..12 :
            /\ MESES_ABREVIADOS[num] = mes
            /\ \A k \in 1..(num - 1) : MESES_ABREVIADOS[k] # mes
    ELSE 0

FiltrarAno(df, ano) ==
    IF ano # TodosAno
    THEN Where(df, SeriesEq(Column(df, "ano_compra"), ano.ano))
    ELSE df

\* the month filter comparing with the zero-based position of the abbreviation
FiltrarMes_ZeroBased(df, mes) ==
    IF mes # "Todos" /\ NumMesSelecionado(mes) # 0
    THEN Where(df, SeriesEq(Column(df, "mes_compra"), IndexOfAbbrev(mes)))
    ELSE df

FiltrarMes(df, mes) ==
    IF mes # "Todos" /\ NumMesSelecionado(mes) # 0
    THEN Where(df, SeriesEq(Column(df, "mes_compra"), NumMesSelecionado(mes)))
    ELSE df

\* lines 86-100
AplicarFiltros(df, ano, mes) == FiltrarMes(FiltrarAno(df, ano), mes)

(***************************************************************************)
(* Views                                                                   *)
(***************************************************************************)
EmptyFrame == Frame({}, <<>>)

\* the keys of df.groupby(col), which sorts them (sort=True)
GroupKeys(df, col) == Sorted(Unique(Column(df, col)))

\* the sum of column val over the rows of df whose column col is k
GroupSum(df, col, k, val) ==
    SumSeq(Column(Where(df, SeriesEq(Column(df, col), k)), val))

NUnique(df, col) == Cardinality(Range(Column(df, col)))

\* lines 110-112
VisaoGeral(df) ==
    [total_produtos      |-> NUnique(df, "produto"),
     total_itens_fisicos |-> SumSeq(Column(df, "quantidade_fisica")),
     valor_total_estoque |->
        SumSeq([i \in DOMAIN df.rows |->
                  df.rows[i].quantidade_fisica * df.rows[i].custo_liquido_entrada])]

\* line 120
AgrupadoFabricante(df) ==
    LET keys == GroupKeys(df, "fabricante")
    IN Frame({"fabricante", "quantidade_fisica"},
             [i \in DOMAIN keys |->
                 [fabricante        |-> keys[i],
                  quantidade_fisica |->
                      GroupSum(df, "fabricante", keys[i], "quantidade_fisica")]])

\* the chart cut to 10 groups before it is sorted
Top10Fabricantes_HeadFirst(df) ==
    LET agrupado == AgrupadoFabricante(df)
    IN SortValuesDesc(Frame(agrupado.cols, Head_n(agrupado.rows, TopN)),
                      "quantidade_fisica")

\* line 123
Top10Fabricantes(df) ==
    LET ordenado == SortValuesDesc(AgrupadoFabricante(df), "quantidade_fisica")
    IN Frame(ordenado.cols, Head_n(ordenado.rows, TopN))

\* lines 141-146
ResumoQuantidades(df) ==
    LET keys == GroupKeys(df, "produto")
    IN Frame({"produto", "quantidade_fisica", "quantidade_solicitada",
              "quantidade_reservada", "quantidade_disponivel"},
             [i \in DOMAIN keys |->
                 [produto               |-> keys[i],
                  quantidade_fisica     |-> GroupSum(df, "produto", keys[i], "quantidade_fisica"),
                  quantidade_solicitada |-> GroupSum(df, "produto", keys[i], "quantidade_solicitada"),
                  quantidade_reservada  |-> GroupSum(df, "produto", keys[i], "quantidade_reservada"),
                  quantidade_disponivel |-> GroupSum(df, "produto", keys[i], "quantidade_disponivel")]])

\* line 160 and line 233: int(df['quantidade disponivel'].max())
MaxDisponivel(df) == Max(Range(Column(df, "quantidade_disponivel")))

\* the low-availability selection without its test for negative quantities
BaixaDisponibilidade_NoFloor(df, limite) ==
    SortValuesDesc(
        Where(df, SeriesLt(Column(df, "quantidade_disponivel"), limite)),
        "quantidade_solicitada")

\* lines 166-169
BaixaDisponibilidade(df, limite) ==
    SortValuesDesc(
        Where(df, MaskAnd(SeriesLt(Column(df, "quantidade_disponivel"), limite),
                          SeriesGe(Column(df, "quantidade_disponivel"), 0))),
        "quantidade_solicitada")

\* float division of two integers: a quotient, an infinity, or NaN
FloatDiv(a, b) ==
    IF b # 0 THEN [kind |-> "finite", num |-> a, den |-> b]
    ELSE IF a = 0 THEN [kind |-> "nan", num |-> 0, den |-> 0]
    ELSE [kind |-> "inf", num |-> a, den |-> 0]

FloatTimes(x, k) == IF x.kind = "finite" THEN [x EXCEPT !.num = @ * k] ELSE x

\* fillna(0) on one value
FillNa0(x) == IF x.kind = "nan" THEN [kind |-> "finite", num |-> 0, den |-> 1] ELSE x

\* lines 185-191: the rows displayed
Avariado(df) ==
    LET sel == Where(df, SeriesGt(Column(df, "quantidade_avariada"), 0))
        pct == WithColumn(sel, "porcentagem_avaria",
                   [i \in DOMAIN sel.rows |->
                       FloatTimes(FloatDiv(sel.rows[i].quantidade_avariada,
                                           sel.rows[i].quantidade_fisica), 100)])
        comPct == IF IsEmpty(sel) THEN sel
                  ELSE WithColumn(pct, "porcentagem_avaria",
                           [i \in DOMAIN pct.rows |->
                               FillNa0(pct.rows[i].porcentagem_avaria)])
    IN SortValuesDesc(comPct, "quantidade_avariada")

\* the day count assigned and the frame left sorted by it
ComDiasDesdeUltimaCompra_Sorted(df) ==
    SortValuesDesc(
        WithColumn(df, "dias_desde_ultima_compra",
                   [i \in DOMAIN df.rows |->
                       Ordinal(hoje) - Ordinal(df.rows[i].data_ultima_compra)]),
        "dias_desde_ultima_compra")

\* lines 204-205: df_filtrado itself receives the column
ComDiasDesdeUltimaCompra(df) ==
    WithColumn(df, "dias_desde_ultima_compra",
               [i \in DOMAIN df.rows |->
                   Ordinal(hoje) - Ordinal(df.rows[i].data_ultima_compra)])

\* lines 211-214
EstoqueParado(df, limite_dias) ==
    SortValuesDesc(
        Where(df, MaskAnd(SeriesGt(Column(df, "dias_desde_ultima_compra"), limite_dias),
                          SeriesGt(Column(df, "quantidade_fisica"), 0))),
        "dias_desde_ultima_compra")

\* the critical selection without its test of the requested quantity
ProdutosCriticos_NoDemand(df, minimo) ==
    SortValuesDesc(
        Where(df, SeriesLt(Column(df, "quantidade_disponivel"), minimo)),
        "quantidade_solicitada")

\* lines 236-239
ProdutosCriticos(df, minimo) ==
    SortValuesDesc(
        Where(df, MaskAnd(SeriesLt(Column(df, "quantidade_disponivel"), minimo),
                          SeriesGt(Column(df, "quantidade_solicitada"), 0))),
        "quantidade_solicitada")

\* lines 266-275
DesempenhoFabricante(df) ==
    LET keys == GroupKeys(df, "fabricante")
    IN SortValuesDesc(
         Frame({"fabricante", "total_quantidade_fisica", "total_quantidade_avariada",
                "total_quantidade_disponivel", "total_quantidade_solicitada",
                "contagem_produtos"},
               [i \in DOMAIN keys |->
                  [fabricante                  |-> keys[i],
                   total_quantidade_fisica     |-> GroupSum(df, "fabricante", keys[i], "quantidade_fisica"),
                   total_quantidade_avariada   |-> GroupSum(df, "fabricante", keys[i], "quantidade_avariada"),
                   total_quantidade_disponivel |-> GroupSum(df, "fabricante", keys[i], "quantidade_disponivel"),
                   total_quantidade_solicitada |-> GroupSum(df, "fabricante", keys[i], "quantidade_solicitada"),
                   contagem_produtos           |->
                       NUnique(Where(df, SeriesEq(Column(df, "fabricante"), keys[i])),
                               "produto")]]),
         "total_quantidade_fisica")

(***************************************************************************)
(* The session.                                                            *)
(***************************************************************************)
VARIABLES
    arquivo,            \* df_estoque.csv on disk
    pc,                 \* the section of the script the run is at
    widgets,            \* the widget values Streamlit keeps between runs
    renderizados,       \* the widgets rendered so far in this run
    mensagens,          \* the st.info / st.warning / st.error / exception boxes of this run
    calculados,         \* the views computed so far in this run
    df_estoque, todos_anos, ano_filtro, todos_meses, mes_filtro, df_filtrado,
    resumo, df_top_10_fabricantes, df_resumo_quantidades,
    limite_disponibilidade, produtos_baixa_disponibilidade,
    df_avariado, limite_dias_compra, estoque_parado,
    min_disponivel, produtos_criticos, df_desempenho_fabricante

sessao == <<arquivo, widgets>>

filtros == <<df_estoque, todos_anos, ano_filtro, todos_meses, mes_filtro, df_filtrado>>

visoes == <<resumo, df_top_10_fabricantes, df_resumo_quantidades,
            limite_disponibilidade, produtos_baixa_disponibilidade,
            df_avariado, limite_dias_compra, estoque_parado,
            min_disponivel, produtos_criticos, df_desempenho_fabricante>>

vars == <<sessao, pc, renderizados, mensagens, calculados, filtros, visoes>>

\* the values the user gives the threshold widgets
LimiteChoices == {60, LimiteValue}
DiasChoices == {200, DiasValue}
CriticoChoices == {10, CriticoValue}

ResumoVazio ==
    [total_produtos |-> 0, total_itens_fisicos |-> 0, valor_total_estoque |-> 0]

\* the script's variables before its first line has run
RunStart(df0, ta, af, tm, mf, dff, rs, top, rq, ld, bd, av, ldc, ep, md, cr, de) ==
    /\ df0 = None
    /\ ta = <<>> /\ af = TodosAno /\ tm = <<>> /\ mf = "Todos"
    /\ dff = EmptyFrame
    /\ rs = ResumoVazio /\ top = EmptyFrame /\ rq = EmptyFrame
    /\ ld = LimiteValue /\ bd = EmptyFrame
    /\ av = EmptyFrame
    /\ ldc = DiasValue /\ ep = EmptyFrame
    /\ md = CriticoValue /\ cr = EmptyFrame
    /\ de = EmptyFrame

Init ==
    /\ arquivo \in Arquivos
    /\ pc = "inicio"
    /\ widgets = [ano     |-> [params |-> <<>>, val |-> TodosAno],
                  mes     |-> [params |-> <<>>, val |-> "Todos"],
                  limite  |-> [params |-> <<>>, val |-> LimiteValue],
                  dias    |-> [params |-> <<>>, val |-> DiasValue],
                  critico |-> [params |-> <<>>, val |-> CriticoValue]]
    /\ renderizados = {}
    /\ mensagens = {}
    /\ calculados = {}
    /\ RunStart(df_estoque, todos_anos, ano_filtro, todos_meses, mes_filtro,
                df_filtrado, resumo, df_top_10_fabricantes, df_resumo_quantidades,
                limite_disponibilidade, produtos_baixa_disponibilidade,
                df_avariado, limite_dias_compra, estoque_parado,
                min_disponivel, produtos_criticos, df_desempenho_fabricante)

\* the load section without st.stop(): the run goes on after a failed load
Carregar_NoStop ==
    /\ pc = "inicio"
    /\ LET r == carregar_dados(arquivo)
       IN /\ df_estoque' = r.df
          /\ mensagens' = IF r.df = None
                          THEN {r.msg, "info:carregue um arquivo"} ELSE {}
          /\ pc' = "filtros"
    /\ UNCHANGED <<sessao, renderizados, calculados, visoes,
                   todos_anos, ano_filtro, todos_meses, mes_filtro, df_filtrado>>

\* lines 48-53: load, and stop the run when nothing was loaded
Carregar ==
    /\ pc = "inicio"
    /\ LET r == carregar_dados(arquivo)
       IN /\ df_estoque' = r.df
          /\ IF r.df = None
             THEN /\ mensagens' = {r.msg, "info:carregue um arquivo"}
                  /\ pc' = "parado"
             ELSE /\ mensagens' = {}
                  /\ pc' = "filtros"
    /\ UNCHANGED <<sessao, renderizados, calculados, visoes,
                   todos_anos, ano_filtro, todos_meses, mes_filtro, df_filtrado>>

\* lines 55-100: the two selectors and the filtered frame
Filtros ==
    /\ pc = "filtros"
    /\ LET df   == PrepararEstoque(df_estoque)
           anos == TodosAnos(df)
           ano  == Selectbox(widgets.ano, anos)
           ms   == TodosMeses(df, ano)
           mes  == Selectbox(widgets.mes, ms)
       IN /\ df_estoque' = df
          /\ todos_anos' = anos
          /\ ano_filtro' = ano
          /\ todos_meses' = ms
          /\ mes_filtro' = mes
          /\ df_filtrado' = AplicarFiltros(df, ano, mes)
          /\ widgets' = [widgets EXCEPT !.ano = [params |-> anos, val |-> ano],
                                        !.mes = [params |-> ms, val |-> mes]]
    /\ renderizados' = renderizados \cup {"ano", "mes"}
    /\ pc' = "visao_geral"
    /\ UNCHANGED <<arquivo, mensagens, calculados, visoes>>

\* lines 106-130: the totals and the manufacturers chart
SecaoVisaoGeral ==
    /\ pc = "visao_geral"
    /\ resumo' = VisaoGeral(df_filtrado)
    /\ IF ~IsEmpty(df_filtrado)
       THEN /\ df_top_10_fabricantes' = Top10Fabricantes(df_filtrado)
            /\ calculados' = calculados \cup {"visao_geral", "top_fabricantes"}
            /\ mensagens' = mensagens
       ELSE /\ df_top_10_fabricantes' = df_top_10_fabricantes
            /\ calculados' = calculados \cup {"visao_geral"}
            /\ mensagens' = mensagens \cup {"info:nenhum dado"}
    /\ pc' = "disponibilidade"
    /\ UNCHANGED <<sessao, renderizados, filtros, df_resumo_quantidades,
                   limite_disponibilidade, produtos_baixa_disponibilidade,
                   df_avariado, limite_dias_compra, estoque_parado,
                   min_disponivel, produtos_criticos, df_desempenho_fabricante>>

\* lines 135-176: the quantity comparison, the threshold input and the
\* low-availability list; the run ends in an exception when the input raises
SecaoDisponibilidade ==
    /\ pc = "disponibilidade"
    /\ IF ~IsEmpty(df_filtrado)
       THEN LET max_value == MaxDisponivel(df_filtrado)
                w == RangeInput(widgets.limite, LimiteMin, max_value, LimiteValue)
            IN /\ df_resumo_quantidades' = ResumoQuantidades(df_filtrado)
               /\ IF w.erro
                  THEN /\ pc' = "erro"
                       /\ mensagens' = mensagens \cup {"exception:number_input"}
                       /\ calculados' = calculados \cup {"comparativo"}
                       /\ UNCHANGED <<widgets, renderizados, limite_disponibilidade,
                                      produtos_baixa_disponibilidade>>
                  ELSE /\ pc' = "avarias"
                       /\ mensagens' = mensagens
                       /\ calculados' = calculados \cup {"comparativo", "baixa_disponibilidade"}
                       /\ widgets' = [widgets EXCEPT !.limite =
                                         [params |-> <<LimiteMin, max_value>>, val |-> w.val]]
                       /\ renderizados' = renderizados \cup {"limite"}
                       /\ limite_disponibilidade' = w.val
                       /\ produtos_baixa_disponibilidade' =
                              BaixaDisponibilidade(df_filtrado, w.val)
       ELSE /\ pc' = "avarias"
            /\ mensagens' = mensagens \cup {"info:nenhum dado"}
            /\ UNCHANGED <<widgets, renderizados, calculados, df_resumo_quantidades,
                           limite_disponibilidade, produtos_baixa_disponibilidade>>
    /\ UNCHANGED <<arquivo, filtros, resumo, df_top_10_fabricantes,
                   df_avariado, limite_dias_compra, estoque_parado,
                   min_disponivel, produtos_criticos, df_desempenho_fabricante>>

\* lines 181-195: the damaged items, computed on a copy of the selection
SecaoAvarias ==
    /\ pc = "avarias"
    /\ IF ~IsEmpty(df_filtrado)
       THEN /\ df_avariado' = Avariado(df_filtrado)
            /\ calculados' = calculados \cup {"avarias"}
            /\ mensagens' = mensagens
       ELSE /\ mensagens' = mensagens \cup {"info:nenhum dado"}
            /\ UNCHANGED <<df_avariado, calculados>>
    /\ pc' = "estoque_parado"
    /\ UNCHANGED <<sessao, renderizados, filtros, resumo, df_top_10_fabricantes,
                   df_resumo_quantidades, limite_disponibilidade,
                   produtos_baixa_disponibilidade, limite_dias_compra, estoque_parado,
                   min_disponivel, produtos_criticos, df_desempenho_fabricante>>

\* lines 200-222: the stale stock; line 205 assigns a column of df_filtrado
SecaoEstoqueParado ==
    /\ pc = "estoque_parado"
    /\ IF ~IsEmpty(df_filtrado)
       THEN LET df == ComDiasDesdeUltimaCompra(df_filtrado)
                w  == RangeInput(widgets.dias, DiasMin, DiasMax, DiasValue)
            IN /\ df_filtrado' = df
               /\ widgets' = [widgets EXCEPT !.dias =
                                 [params |-> <<DiasMin, DiasMax>>, val |-> w.val]]
               /\ renderizados' = renderizados \cup {"dias"}
               /\ limite_dias_compra' = w.val
               /\ estoque_parado' = EstoqueParado(df, w.val)
               /\ calculados' = calculados \cup {"estoque_parado"}
               /\ mensagens' = mensagens
       ELSE /\ mensagens' = mensagens \cup {"info:nenhum dado"}
            /\ UNCHANGED <<df_filtrado, widgets, renderizados, limite_dias_compra,
                           estoque_parado, calculados>>
    /\ pc' = "criticos"
    /\ UNCHANGED <<arquivo, df_estoque, todos_anos, ano_filtro, todos_meses, mes_filtro,
                   resumo, df_top_10_fabricantes, df_resumo_quantidades,
                   limite_disponibilidade, produtos_baixa_disponibilidade, df_avariado,
                   min_disponivel, produtos_criticos, df_desempenho_fabricante>>

\* lines 227-257: the critical products and their threshold slider
SecaoCriticos ==
    /\ pc = "criticos"
    /\ IF ~IsEmpty(df_filtrado)
       THEN LET max_value == MaxDisponivel(df_filtrado)
                w == RangeInput(widgets.critico, CriticoMin, max_value, CriticoValue)
            IN IF w.erro
               THEN /\ pc' = "erro"
                    /\ mensagens' = mensagens \cup {"exception:slider"}
                    /\ UNCHANGED <<widgets, renderizados, calculados, min_disponivel,
                                   produtos_criticos>>
               ELSE /\ pc' = "desempenho"
                    /\ mensagens' = mensagens
                    /\ widgets' = [widgets EXCEPT !.critico =
                                      [params |-> <<CriticoMin, max_value>>, val |-> w.val]]
                    /\ renderizados' = renderizados \cup {"critico"}
                    /\ min_disponivel' = w.val
                    /\ produtos_criticos' = ProdutosCriticos(df_filtrado, w.val)
                    /\ calculados' = calculados \cup {"criticos"}
       ELSE /\ pc' = "desempenho"
            /\ mensagens' = mensagens \cup {"info:nenhum dado"}
            /\ UNCHANGED <<widgets, renderizados, calculados, min_disponivel,
                           produtos_criticos>>
    /\ UNCHANGED <<arquivo, filtros, resumo, df_top_10_fabricantes,
                   df_resumo_quantidades, limite_disponibilidade,
                   produtos_baixa_disponibilidade, df_avariado, limite_dias_compra,
                   estoque_parado, df_desempenho_fabricante>>

\* lines 262-279: the per-manufacturer rollup, the last section of the script
SecaoDesempenho ==
    /\ pc = "desempenho"
    /\ IF ~IsEmpty(df_filtrado)
       THEN /\ df_desempenho_fabricante' = DesempenhoFabricante(df_filtrado)
            /\ calculados' = calculados \cup {"desempenho"}
            /\ mensagens' = mensagens
       ELSE /\ mensagens' = mensagens \cup {"info:nenhum dado"}
            /\ UNCHANGED <<df_desempenho_fabricante, calculados>>
    /\ pc' = "fim"
    /\ UNCHANGED <<sessao, renderizados, filtros, resumo, df_top_10_fabricantes,
                   df_resumo_quantidades, limite_disponibilidade,
                   produtos_baixa_disponibilidade, df_avariado, limite_dias_compra,
                   estoque_parado, min_disponivel, produtos_criticos>>

(***************************************************************************)
(* The user.  A widget rendered by the finished run is given another value *)
(* and the script runs again from its first line.                          *)
(***************************************************************************)
Terminado == pc \in {"fim", "erro", "parado"}

NovaExecucao ==
    /\ pc' = "inicio"
    /\ renderizados' = {}
    /\ mensagens' = {}
    /\ calculados' = {}
    /\ RunStart(df_estoque', todos_anos', ano_filtro', todos_meses', mes_filtro',
                df_filtrado', resumo', df_top_10_fabricantes', df_resumo_quantidades',
                limite_disponibilidade', produtos_baixa_disponibilidade',
                df_avariado', limite_dias_compra', estoque_parado',
                min_disponivel', produtos_criticos', df_desempenho_fabricante')
    /\ arquivo' = arquivo

SelecionarAno ==
    /\ Terminado /\ "ano" \in renderizados
    /\ \E a \in Range(todos_anos) :
          /\ a # ano_filtro
          /\ widgets' = [widgets EXCEPT !.ano.val = a]
    /\ NovaExecucao

SelecionarMes ==
    /\ Terminado /\ "mes" \in renderizados
    /\ \E m \in Range(todos_meses) :
          /\ m # mes_filtro
          /\ widgets' = [widgets EXCEPT !.mes.val = m]
    /\ NovaExecucao

DefinirLimite ==
    /\ Terminado /\ "limite" \in renderizados
    /\ \E v \in LimiteChoices :
          /\ v # limite_disponibilidade
          /\ v >= widgets.limite.params[1] /\ v <= widgets.limite.params[2]
          /\ widgets' = [widgets EXCEPT !.limite.val = v]
    /\ NovaExecucao

DefinirDias ==
    /\ Terminado /\ "dias" \in renderizados
    /\ \E v \in DiasChoices :
          /\ v # limite_dias_compra
          /\ v >= widgets.dias.params[1] /\ v <= widgets.dias.params[2]
          /\ widgets' = [widgets EXCEPT !.dias.val = v]
    /\ NovaExecucao

DefinirCritico ==
    /\ Terminado /\ "critico" \in renderizados
    /\ \E v \in CriticoChoices :
          /\ v # min_disponivel
          /\ v >= widgets.critico.params[1] /\ v <= widgets.critico.params[2]
          /\ widgets' = [widgets EXCEPT !.critico.val = v]
    /\ NovaExecucao

\* the user asks for a rerun without touching a widget
Reexecutar ==
    /\ Terminado
    /\ widgets' = widgets
    /\ NovaExecucao

Next ==
    \/ Carregar
    \/ Filtros
    \/ SecaoVisaoGeral
    \/ SecaoDisponibilidade
    \/ SecaoAvarias
    \/ SecaoEstoqueParado
    \/ SecaoCriticos
    \/ SecaoDesempenho
    \/ SelecionarAno
    \/ SelecionarMes
    \/ DefinirLimite
    \/ DefinirDias
    \/ DefinirCritico
    \/ Reexecutar

Spec == Init /\ [][Next]_vars

(***************************************************************************)
(* Properties.                                                             *)
(***************************************************************************)
\* a row seen through the columns of the input file
Proj(r) == [c \in COLUNAS |-> r[c]]

ProjRows(rows) == [i \in DOMAIN rows |-> Proj(rows[i])]

CountIn(rows, x) == Cardinality({i \in DOMAIN rows : rows[i] = x})

\* the two sequences hold the same rows, each as often in one as in the other
SameRows(a, b) ==
    \A x \in Range(a) \cup Range(b) : CountIn(a, x) = CountIn(b, x)

DescendingBy(rows, col) ==
    \A i, j \in DOMAIN rows : i < j => rows[i][col] >= rows[j][col]

\* the run is past the filter section
Filtrado == pc \notin {"inicio", "filtros", "parado"}

\* the rows of the file whose date parses, with the date parsed
LinhasValidas ==
    LET ok == SelectSeq(arquivo.linhas,
                        LAMBDA r : /\ Len(r.data_ultima_compra) = 3
                                   /\ r.data_ultima_compra[2] \in 1..12
                                   /\ r.data_ultima_compra[3] \in
                                        1..DaysInMonth(r.data_ultima_compra[1],
                                                       r.data_ultima_compra[2]))
    IN IF arquivo.estado = "ok" THEN ok ELSE <<>>

\* C1: once the filters are applied, the filtered set holds exactly the loaded
\* records whose purchase year is the selected year (when one is selected) and
\* whose purchase month is the selected month (when one is selected), in their
\* original order; with 'Todos'/'Todos' it is the loaded set itself.
C1_FilterExact ==
    Filtrado =>
        /\ ProjRows(df_filtrado.rows) =
              SelectSeq(LinhasValidas,
                  LAMBDA r :
                      /\ ano_filtro = TodosAno \/ r.data_ultima_compra[1] = ano_filtro.ano
                      /\ mes_filtro = "Todos"
                           \/ MESES_ABREVIADOS[r.data_ultima_compra[2]] = mes_filtro)
        /\ (ano_filtro = TodosAno /\ mes_filtro = "Todos")
              => ProjRows(df_filtrado.rows) = ProjRows(df_estoque.rows)

\* a specific year and month are selected and keep some but not all records
C1_Witness ==
    /\ pc = "fim"
    /\ ano_filtro # TodosAno /\ mes_filtro # "Todos"
    /\ Len(df_filtrado.rows) >= 2
    /\ Len(df_filtrado.rows) < Len(df_estoque.rows)

\* C2: in every state the pair (year, month) in effect is valid: the years are
\* offered in descending order, with year 'Todos' the only month offered and
\* selected is 'Todos' and nothing is narrowed, and with a year Y the months
\* offered are exactly the months of the records of Y and the month selected is
\* one of them.
C2_ValidPair ==
    /\ ano_filtro = TodosAno => mes_filtro = "Todos"
    /\ Filtrado =>
        /\ ano_filtro \in Range(todos_anos)
        /\ mes_filtro \in Range(todos_meses)
        /\ todos_anos[1] = TodosAno
        /\ \A i, j \in 2..Len(todos_anos) : i < j => todos_anos[i].ano > todos_anos[j].ano
        /\ {todos_anos[i].ano : i \in 2..Len(todos_anos)} =
              {r.data_ultima_compra[1] : r \in Range(LinhasValidas)}
        /\ todos_meses[1] = "Todos"
        /\ ano_filtro = TodosAno =>
              /\ todos_meses = <<"Todos">>
              /\ Len(df_filtrado.rows) = Len(LinhasValidas)
        /\ ano_filtro # TodosAno =>
              /\ {todos_meses[i] : i \in 2..Len(todos_meses)} =
                    {MESES_ABREVIADOS[r.data_ultima_compra[2]] :
                        r \in {x \in Range(LinhasValidas) :
                                  x.data_ultima_compra[1] = ano_filtro.ano}}
              /\ \A i, j \in 2..Len(todos_meses) :
                    i < j => IndexOfAbbrev(todos_meses[i]) < IndexOfAbbrev(todos_meses[j])

\* the year was changed after a month was chosen: the run is about to read the
\* selectors while the month the user last chose is not a month of the year
\* now selected
C2_Witness ==
    /\ pc = "filtros"
    /\ widgets.ano.val # TodosAno
    /\ widgets.mes.val # "Todos"
    /\ \A r \in Range(df_estoque.rows) :
          r.data_ultima_compra[1] = widgets.ano.val.ano
             => MESES_ABREVIADOS[r.data_ultima_compra[2]] # widgets.mes.val

\* C3: a successful load returns a non-empty set of the file's rows with a
\* parseable date, every date parsed and non-null, the dropped rows reported
\* by no message, and the load fails whenever no such row exists (the file
\* having rows or not).
C3_LoadValidNonEmpty ==
    pc # "inicio" =>
        /\ df_estoque # None =>
              /\ df_estoque.rows # <<>>
              /\ \A i \in DOMAIN df_estoque.rows :
                    df_estoque.rows[i].data_ultima_compra # NaT
              /\ ProjRows(df_estoque.rows) = LinhasValidas
              /\ pc = "filtros" => mensagens = {}
        /\ LinhasValidas = <<>> => df_estoque = None

\* a load that succeeded after dropping a row whose date does not parse
C3_Witness ==
    /\ pc = "filtros"
    /\ df_estoque # None
    /\ Len(df_estoque.rows) < Len(arquivo.linhas)

\* the manufacturers of the filtered set, and what the chart must say of them
FabricantesFiltrados == {r.fabricante : r \in Range(df_filtrado.rows)}

SomaFisica(f) ==
    SumSeq([i \in DOMAIN df_filtrado.rows |->
              IF df_filtrado.rows[i].fabricante = f
              THEN df_filtrado.rows[i].quantidade_fisica ELSE 0])

PrimeiraOcorrencia(f) ==
    CHOOSE i \in DOMAIN df_filtrado.rows :
        /\ df_filtrado.rows[i].fabricante = f
        /\ \A k \in 1..(i - 1) : df_filtrado.rows[k].fabricante # f

\* the chart holds min(10, number of manufacturers) distinct manufacturers of
\* the filtered set, each with the sum of its physical quantities
TopGroupsWellFormed(top) ==
    /\ Len(top) = IF Cardinality(FabricantesFiltrados) < TopN
                  THEN Cardinality(FabricantesFiltrados) ELSE TopN
    /\ \A i \in DOMAIN top :
          /\ top[i].fabricante \in FabricantesFiltrados
          /\ top[i].quantidade_fisica = SomaFisica(top[i].fabricante)
    /\ \A i, j \in DOMAIN top : i # j => top[i].fabricante # top[j].fabricante

\* C4 as stated: at most 10 groups with their sums, descending by sum, equal
\* sums in order of first occurrence of the manufacturer in the filtered
\* records, and the groups kept are the first 10 under that ordering.
C4_TopFirstSeenTies ==
    "top_fabricantes" \in calculados =>
        LET top == df_top_10_fabricantes.rows
            Antes(f, g) ==
                \/ SomaFisica(f) > SomaFisica(g)
                \/ /\ SomaFisica(f) = SomaFisica(g)
                   /\ PrimeiraOcorrencia(f) < PrimeiraOcorrencia(g)
        IN /\ TopGroupsWellFormed(top)
           /\ \A i, j \in DOMAIN top :
                 i < j => Antes(top[i].fabricante, top[j].fabricante)
           /\ \A g \in FabricantesFiltrados \ {top[i].fabricante : i \in DOMAIN top} :
                 \A i \in DOMAIN top : Antes(top[i].fabricante, g)

\* C4 amended: at most 10 groups with their sums, descending by sum, and no
\* manufacturer left out has a larger sum than one kept; nothing is said of
\* the order among equal sums.
C4_TopDescending ==
    "top_fabricantes" \in calculados =>
        LET top == df_top_10_fabricantes.rows
        IN /\ TopGroupsWellFormed(top)
           /\ DescendingBy(top, "quantidade_fisica")
           /\ \A g \in FabricantesFiltrados \ {top[i].fabricante : i \in DOMAIN top} :
                 \A i \in DOMAIN top : top[i].quantidade_fisica >= SomaFisica(g)

\* more than 10 manufacturers, cut to 10, with two different sums among the kept
C4_Witness ==
    /\ "top_fabricantes" \in calculados
    /\ Cardinality(FabricantesFiltrados) > TopN
    /\ Len(df_top_10_fabricantes.rows) = TopN
    /\ df_top_10_fabricantes.rows[1].quantidade_fisica >
          df_top_10_fabricantes.rows[TopN].quantidade_fisica

\* C5 as stated: the damage view holds exactly the filtered records with a
\* damaged quantity above 0, descending by damaged quantity, each with the
\* percentage damaged / physical * 100, which is 0 when the physical quantity
\* is 0: no percentage is NaN or infinite.
C5_DamagePctFinite ==
    "avarias" \in calculados =>
        LET v == df_avariado.rows
        IN /\ SameRows(ProjRows(v),
                       SelectSeq(ProjRows(df_filtrado.rows),
                                 LAMBDA r : r.quantidade_avariada > 0))
           /\ DescendingBy(v, "quantidade_avariada")
           /\ \A i \in DOMAIN v :
                 /\ v[i].porcentagem_avaria.kind = "finite"
                 /\ IF v[i].quantidade_fisica = 0
                    THEN v[i].porcentagem_avaria.num = 0
                    ELSE v[i].porcentagem_avaria.num * v[i].quantidade_fisica =
                            v[i].quantidade_avariada * 100 * v[i].porcentagem_avaria.den

\* C6: the low-availability view holds exactly the filtered records with
\* 0 <= available < threshold, descending by requested quantity, for every
\* threshold the input lets through; records with a negative available
\* quantity or one equal to the threshold are not in it.
C6_LowAvailabilityExact ==
    "baixa_disponibilidade" \in calculados =>
        LET v == produtos_baixa_disponibilidade.rows
        IN /\ limite_disponibilidade \in LimiteMin..MaxDisponivel(df_filtrado)
           /\ SameRows(ProjRows(v),
                 SelectSeq(ProjRows(df_filtrado.rows),
                     LAMBDA r : /\ 0 <= r.quantidade_disponivel
                                /\ r.quantidade_disponivel < limite_disponibilidade))
           /\ DescendingBy(v, "quantidade_solicitada")
           /\ \A i \in DOMAIN v :
                 /\ v[i].quantidade_disponivel >= 0
                 /\ v[i].quantidade_disponivel # limite_disponibilidade

\* the view is not empty while the filtered set holds a record with a
\* negative available quantity and one whose available quantity is the threshold
C6_Witness ==
    /\ "baixa_disponibilidade" \in calculados
    /\ produtos_baixa_disponibilidade.rows # <<>>
    /\ \E r \in Range(df_filtrado.rows) : r.quantidade_disponivel < 0
    /\ \E r \in Range(df_filtrado.rows) : r.quantidade_disponivel = limite_disponibilidade

SemVisoes ==
    /\ calculados = {}
    /\ renderizados = {}
    /\ RunStart(None, <<>>, ano_filtro, <<>>, mes_filtro, df_filtrado, resumo,
                df_top_10_fabricantes, df_resumo_quantidades,
                limite_disponibilidade, produtos_baixa_disponibilidade,
                df_avariado, limite_dias_compra, estoque_parado,
                min_disponivel, produtos_criticos, df_desempenho_fabricante)

\* C8: when the load fails (file absent, unreadable, or without a row whose
\* date parses) the run shows a message and stops: it is never past the load
\* guard, no selector is rendered, no filter applied and no view computed.
C8_LoadFailureStops ==
    (arquivo.estado # "ok" \/ LinhasValidas = <<>>) =>
        /\ pc \in {"inicio", "parado"}
        /\ pc = "parado" => mensagens # {}
        /\ df_estoque = None
        /\ SemVisoes

\* a run stopped on a file whose rows all have unparseable dates
C8_Witness ==
    /\ pc = "parado"
    /\ arquivo.estado = "ok"
    /\ arquivo.linhas # <<>>
    /\ mensagens # {}

\* the sections that compute views
SecoesDeVisao ==
    {"visao_geral", "disponibilidade", "avarias", "estoque_parado", "criticos",
     "desempenho"}

\* C9 as stated: no view computation changes the filtered set: same rows,
\* same order, same columns, same values.
C9_ViewsLeaveFilteredSet ==
    [][(pc \in SecoesDeVisao) => df_filtrado' = df_filtrado]_vars

\* C9 amended: no view computation adds, drops or reorders rows of the
\* filtered set or changes a value of a column it had; the only change is the
\* column dias_desde_ultima_compra, which the stale-stock section adds.
C9_ViewsKeepRowsAndValues ==
    [][(pc \in SecoesDeVisao) =>
          /\ Len(df_filtrado'.rows) = Len(df_filtrado.rows)
          /\ df_filtrado.cols \subseteq df_filtrado'.cols
          /\ df_filtrado'.cols \ df_filtrado.cols \subseteq {"dias_desde_ultima_compra"}
          /\ pc # "estoque_parado" => df_filtrado'.cols = df_filtrado.cols
          /\ \A i \in DOMAIN df_filtrado.rows :
                \A c \in df_filtrado.cols :
                    df_filtrado'.rows[i][c] = df_filtrado.rows[i][c]]_vars

\* a finished run whose filtered set of several records carries the added column
C9_Witness ==
    /\ pc = "fim"
    /\ "estoque_parado" \in calculados
    /\ "dias_desde_ultima_compra" \in df_filtrado.cols
    /\ Len(df_filtrado.rows) >= 2
    /\ calculados = {"visao_geral", "top_fabricantes", "comparativo",
                     "baixa_disponibilidade", "avarias", "estoque_parado",
                     "criticos", "desempenho"}

\* C10 as stated: for every non-empty filtered set the initial values of the
\* two threshold controls lie within the controls' ranges, so a run that has
\* come to the first of them does not end in an error.
C10_DefaultsWithinRange ==
    (Filtrado /\ ~IsEmpty(df_filtrado) /\ "comparativo" \in calculados) =>
        /\ LimiteMin <= MaxDisponivel(df_filtrado)
        /\ LimiteValue <= MaxDisponivel(df_filtrado)
        /\ CriticoValue \in CriticoMin..MaxDisponivel(df_filtrado)
        /\ pc # "erro"

=============================================================================
